---- MODULE Spec2Model ----
(***************************************************************************)
(* Model of the bounded LRU cache of internal/cache/lru.go layered over a  *)
(* Backing Store with the behaviour of internal/storage/memory.go.         *)
(*                                                                         *)
(* Every public operation of LRUCache runs under c.mu from entry to return *)
(* (lru.go:38-39, 72-73, 99-100), so each operation is one atomic action.  *)
(* The recency list is a sequence of cacheItem records, front first; the   *)
(* items map holds, for each key, the position in the list of the element  *)
(* the Go pointer refers to (0 for an element no longer in the list).      *)
(***************************************************************************)
EXTENDS Integers, Sequences, FiniteSets, TLC

\* ---------------------------------------------------------------- bounds
NumKeys == 3
NumVals == 2
MaxCap == 2

Keys == 1..NumKeys
Values == 1..NumVals
\* a negative capacity, zero, and the positive capacities up to MaxCap
Capacities == (0 - 1)..MaxCap
\* the absence of a value: a key the map does not hold, a nil return
NoVal == 0

\* ---------------------------------------------------------------- errors
\* An error is the sequence of its message parts, outermost wrapper first;
\* the nil error is the empty sequence.
NoErr == <<>>
ErrNotExist == <<"file does not exist">>
ErrCanceled == <<"context canceled">>
ErrRead == <<"read error">>
\* what a store call can fail with besides not-found: ctx.Err()
StoreErrs == {ErrCanceled}
\* An operation returns at its first error, so at most one of its store
\* interactions fails: the store call of the operation itself (first), the
\* read of the returned stream (second) or the Delete of an eviction (third).
GetOutcomes ==
  {<<NoErr, NoErr, NoErr>>, <<NoErr, ErrRead, NoErr>>}
    \cup {<<e, NoErr, NoErr>> : e \in StoreErrs}
    \cup {<<NoErr, NoErr, e>> : e \in StoreErrs}
SetOutcomes ==
  {<<NoErr, NoErr>>} \cup {<<e, NoErr>> : e \in StoreErrs}
                     \cup {<<NoErr, e>> : e \in StoreErrs}
DeleteOutcomes == {NoErr} \cup StoreErrs

\* mutant of WrapDelete: the error of the store's Delete is returned bare
WrapDeleteBare(err) == err

\* fmt.Errorf("failed to delete from storage: %w", err)
WrapDelete(err) == <<"failed to delete from storage: ">> \o err
\* errors.Unwrap
Unwrap(err) == IF Len(err) > 1 THEN Tail(err) ELSE NoErr

\* the cache, its store and what is recorded of their past
VARIABLES capacity, mu, list, items, storage, last, touches, distinctSets,
          setHistory
\* the key handed to FileStorage.sanitizeKey and what it returned
VARIABLES san
\* a store used directly: which implementation it is, the map of a
\* MemoryStorage, what is at the base directory of a FileStorage, the files
\* in it and the size counter, the last store operation, and for each key
\* the value of its last Set since its last Delete
VARIABLES kind, mdata, base, files, size, slast, written
\* the threads that call one cache: where each is in the method it runs,
\* with the method's arguments and locals; and the cache as it was when the
\* lock was last taken
VARIABLES th, pre
\* the request that ImageProcessor.GetOriginalImage is serving: where it is,
\* its URL, and what it has called so far with which results
VARIABLES req

cacheVars == <<capacity, mu, list, items, storage, last, touches,
               distinctSets, setHistory>>
sanVars == <<san>>
storeVars == <<kind, mdata, base, files, size, slast, written>>
concVars == <<th, pre>>
procVars == <<req>>
vars == <<cacheVars, sanVars, storeVars, concVars, procVars>>

\* ------------------------------------------------------- Backing Store
\* s.data[key] lookup after the ctx.Err() check
StorageGet(data, ctxErr, key) ==
  IF ctxErr # NoErr THEN [value |-> NoVal, err |-> ctxErr]
  ELSE IF data[key] = NoVal THEN [value |-> NoVal, err |-> ErrNotExist]
  ELSE [value |-> data[key], err |-> NoErr]

StorageSetWriteFirst(data, ctxErr, key, value) ==
  [data |-> [data EXCEPT ![key] = value], err |-> ctxErr]

StorageSet(data, ctxErr, key, value) ==
  IF ctxErr # NoErr THEN [data |-> data, err |-> ctxErr]
  ELSE [data |-> [data EXCEPT ![key] = value], err |-> NoErr]

StorageDelete(data, ctxErr, key) ==
  IF ctxErr # NoErr THEN [data |-> data, err |-> ctxErr]
  ELSE [data |-> [data EXCEPT ![key] = NoVal], err |-> NoErr]

\* one recorded invocation of a store method
Call(m, key, err) == [m |-> m, key |-> key, err |-> err]

\* ------------------------------------------------------ container/list
cacheItem(key, value) == [key |-> key, value |-> value]

\* list.MoveToFront(elem), elem at position p
MoveToFront(l, p) ==
  IF p = 0 THEN l
  ELSE <<l[p]>> \o SubSeq(l, 1, p - 1) \o SubSeq(l, p + 1, Len(l))

\* where the element pointers of the map point after MoveToFront
PtrMoveToFront(m, p) ==
  [k \in DOMAIN m |-> IF p = 0 THEN m[k]
                      ELSE IF m[k] = p THEN 1
                      ELSE IF m[k] # 0 /\ m[k] < p THEN m[k] + 1
                      ELSE m[k]]

\* mutant of Back: the eviction takes the front element
BackIsFront(l) == IF l = <<>> THEN 0 ELSE 1

\* list.Back(): the position of the last element, 0 for nil
Back(l) == Len(l)

\* list.PushFront(item)
PushFront(l, item) == <<item>> \o l

PtrPushFront(m) == [k \in DOMAIN m |-> IF m[k] = 0 THEN 0 ELSE m[k] + 1]

\* list.Remove(elem), elem at position p
Remove(l, p) ==
  IF p = 0 THEN l ELSE SubSeq(l, 1, p - 1) \o SubSeq(l, p + 1, Len(l))

PtrRemove(m, p) ==
  [k \in DOMAIN m |-> IF p = 0 THEN m[k]
                      ELSE IF m[k] = p THEN 0
                      ELSE IF m[k] > p THEN m[k] - 1
                      ELSE m[k]]

\* c.items[key] = elem, elem at position p
MapPut(m, key, p) ==
  [k \in (DOMAIN m) \cup {key} |-> IF k = key THEN p ELSE m[k]]

\* mutant of MapDelete: the map keeps the entry
MapDeleteKeep(m, key) == m

\* delete(c.items, key)
MapDelete(m, key) == [k \in (DOMAIN m) \ {key} |-> m[k]]

\* elem.Value.(*cacheItem).value = value
SetValue(l, p, value) ==
  IF p = 0 THEN l ELSE [l EXCEPT ![p] = cacheItem(l[p].key, value)]

\* ------------------------------------------------------------ LRUCache
\* The working state of one operation: the index, the store, the store
\* calls made so far, the keys evicted so far, the error to return, the
\* value to return and whether the operation returns at all.
Work(l, m, data) ==
  [list |-> l, items |-> m, storage |-> data, calls |-> <<>>,
   evicted |-> <<>>, err |-> NoErr, ret |-> NoVal, returned |-> TRUE]

\* mutant of removeOldest: the store Delete comes first and an error from it
\* leaves the index as it was
removeOldestKeepOnError(w, derr) ==
  IF Back(w.list) = 0 THEN [w EXCEPT !.err = NoErr]
  ELSE LET p == Back(w.list)
           item == w.list[p]
           d == StorageDelete(w.storage, derr, item.key)
           w1 == [w EXCEPT !.storage = d.data,
                           !.calls = Append(w.calls,
                                            Call("Delete", item.key, d.err))]
       IN IF d.err # NoErr THEN [w1 EXCEPT !.err = WrapDelete(d.err)]
          ELSE [w1 EXCEPT !.items = PtrRemove(MapDelete(w.items, item.key), p),
                          !.list = Remove(w.list, p),
                          !.evicted = Append(w.evicted, item.key)]

\* mutant of removeOldest: the entry leaves the index and the store keeps it
removeOldestIndexOnly(w, derr) ==
  IF Back(w.list) = 0 THEN [w EXCEPT !.err = NoErr]
  ELSE LET p == Back(w.list)
           item == w.list[p]
       IN [w EXCEPT !.items = PtrRemove(MapDelete(w.items, item.key), p),
                    !.list = Remove(w.list, p),
                    !.evicted = Append(w.evicted, item.key)]

\* mutant of removeOldest: the eviction takes the element at the front
removeOldestNewest(w, derr) ==
  IF Back(w.list) = 0 THEN [w EXCEPT !.err = NoErr]
  ELSE LET p == 1
           item == w.list[p]
           items1 == MapDelete(w.items, item.key)
           d == StorageDelete(w.storage, derr, item.key)
       IN [w EXCEPT !.items = PtrRemove(items1, p),
                    !.list = Remove(w.list, p),
                    !.storage = d.data,
                    !.calls = Append(w.calls, Call("Delete", item.key, d.err)),
                    !.evicted = Append(w.evicted, item.key),
                    !.err = IF d.err # NoErr THEN WrapDelete(d.err) ELSE NoErr]

removeOldest(w, derr) ==
  IF Back(w.list) = 0 THEN [w EXCEPT !.err = NoErr]
  ELSE LET p == Back(w.list)
           item == w.list[p]
           items1 == MapDelete(w.items, item.key)
           d == StorageDelete(w.storage, derr, item.key)
       IN [w EXCEPT !.items = PtrRemove(items1, p),
                    !.list = Remove(w.list, p),
                    !.storage = d.data,
                    !.calls = Append(w.calls, Call("Delete", item.key, d.err)),
                    !.evicted = Append(w.evicted, item.key),
                    !.err = IF d.err # NoErr THEN WrapDelete(d.err) ELSE NoErr]

\* mutant of GetHit: the hit does not promote the element
GetHitNoPromote(w, key) ==
  [w EXCEPT !.ret = w.list[w.items[key]].value]

\* Get, key found in c.items
GetHit(w, key) ==
  LET p == w.items[key]
  IN [w EXCEPT !.list = MoveToFront(w.list, p),
               !.items = PtrMoveToFront(w.items, p),
               !.ret = w.list[p].value]

\* mutant of GetMiss: the capacity test looks at the length before the insert
GetMissCheckBeforeInsert(w, key, gerr, rerr, derr) ==
  LET g == StorageGet(w.storage, gerr, key)
      w1 == [w EXCEPT !.calls = Append(w.calls, Call("Get", key, g.err))]
  IN IF g.err # NoErr THEN [w1 EXCEPT !.err = g.err]
     ELSE IF rerr # NoErr THEN [w1 EXCEPT !.err = rerr]
     ELSE LET w2 == [w1 EXCEPT
                       !.list = PushFront(w1.list, cacheItem(key, g.value)),
                       !.items = MapPut(PtrPushFront(w1.items), key, 1)]
          IN IF Len(w1.list) > capacity
             THEN LET w3 == removeOldest(w2, derr)
                  IN IF w3.err # NoErr THEN w3
                     ELSE [w3 EXCEPT !.ret = g.value]
             ELSE [w2 EXCEPT !.ret = g.value]

\* mutant of GetMiss: the value read through is returned and not indexed
GetMissNoCache(w, key, gerr, rerr, derr) ==
  LET g == StorageGet(w.storage, gerr, key)
      w1 == [w EXCEPT !.calls = Append(w.calls, Call("Get", key, g.err))]
  IN IF g.err # NoErr THEN [w1 EXCEPT !.err = g.err]
     ELSE IF rerr # NoErr THEN [w1 EXCEPT !.err = rerr]
     ELSE [w1 EXCEPT !.ret = g.value]

\* mutant of GetMiss: the error of the store's Get is wrapped
GetMissWrapErr(w, key, gerr, rerr, derr) ==
  LET g == StorageGet(w.storage, gerr, key)
      w1 == [w EXCEPT !.calls = Append(w.calls, Call("Get", key, g.err))]
  IN IF g.err # NoErr
     THEN [w1 EXCEPT !.err = <<"failed to get from storage: ">> \o g.err]
     ELSE IF rerr # NoErr THEN [w1 EXCEPT !.err = rerr]
     ELSE LET w2 == [w1 EXCEPT
                       !.list = PushFront(w1.list, cacheItem(key, g.value)),
                       !.items = MapPut(PtrPushFront(w1.items), key, 1)]
          IN IF Len(w2.list) > capacity
             THEN LET w3 == removeOldest(w2, derr)
                  IN IF w3.err # NoErr THEN w3
                     ELSE [w3 EXCEPT !.ret = g.value]
             ELSE [w2 EXCEPT !.ret = g.value]

\* mutant of GetMiss: the read-through insert never evicts
GetMissNoEvict(w, key, gerr, rerr, derr) ==
  LET g == StorageGet(w.storage, gerr, key)
      w1 == [w EXCEPT !.calls = Append(w.calls, Call("Get", key, g.err))]
  IN IF g.err # NoErr THEN [w1 EXCEPT !.err = g.err]
     ELSE IF rerr # NoErr THEN [w1 EXCEPT !.err = rerr]
     ELSE [w1 EXCEPT !.list = PushFront(w1.list, cacheItem(key, g.value)),
                     !.items = MapPut(PtrPushFront(w1.items), key, 1),
                     !.ret = g.value]

\* Get, key not in c.items: read through to the store
GetMiss(w, key, gerr, rerr, derr) ==
  LET g == StorageGet(w.storage, gerr, key)
      w1 == [w EXCEPT !.calls = Append(w.calls, Call("Get", key, g.err))]
  IN IF g.err # NoErr THEN [w1 EXCEPT !.err = g.err]
     ELSE IF rerr # NoErr THEN [w1 EXCEPT !.err = rerr]
     ELSE LET w2 == [w1 EXCEPT
                       !.list = PushFront(w1.list, cacheItem(key, g.value)),
                       !.items = MapPut(PtrPushFront(w1.items), key, 1)]
          IN IF Len(w2.list) > capacity
             THEN LET w3 == removeOldest(w2, derr)
                  IN IF w3.err # NoErr THEN w3
                     ELSE [w3 EXCEPT !.ret = g.value]
             ELSE [w2 EXCEPT !.ret = g.value]

\* mutant of GetOp: every Get reads through to the store
GetOpAlwaysReadThrough(w, key, gerr, rerr, derr) ==
  LET w1 == IF key \in DOMAIN w.items
            THEN [w EXCEPT !.list = Remove(w.list, w.items[key]),
                           !.items = MapDelete(PtrRemove(w.items, w.items[key]),
                                               key)]
            ELSE w
  IN GetMiss(w1, key, gerr, rerr, derr)

GetOp(w, key, gerr, rerr, derr) ==
  IF key \in DOMAIN w.items THEN GetHit(w, key)
  ELSE GetMiss(w, key, gerr, rerr, derr)

\* for c.list.Len() > c.capacity { removeOldest }.  Every store Delete of
\* the loop is given the outcome derr; the loop stops at the first error.
\* An iteration over the empty list changes nothing and returns nil, so the
\* loop then never ends and the operation does not return.
RECURSIVE EvictLoop(_, _)
EvictLoop(w, derr) ==
  IF Len(w.list) > capacity
  THEN IF Back(w.list) = 0 THEN [w EXCEPT !.returned = FALSE]
       ELSE LET w1 == removeOldest(w, derr)
            IN IF w1.err # NoErr THEN w1 ELSE EvictLoop(w1, derr)
  ELSE w

\* mutant of SetOp: the index is updated before the store write is checked
SetOpIndexFirst(w, key, value, serr, derr) ==
  LET s == StorageSet(w.storage, serr, key, value)
      w1 == [w EXCEPT !.storage = s.data,
                      !.calls = Append(w.calls, Call("Set", key, s.err))]
      w2 == IF key \in DOMAIN w1.items
            THEN LET p == w1.items[key]
                 IN [w1 EXCEPT !.list = SetValue(MoveToFront(w1.list, p),
                                                 IF p = 0 THEN 0 ELSE 1, value),
                               !.items = PtrMoveToFront(w1.items, p)]
            ELSE [w1 EXCEPT
                    !.list = PushFront(w1.list, cacheItem(key, value)),
                    !.items = MapPut(PtrPushFront(w1.items), key, 1)]
  IN IF s.err # NoErr THEN [w2 EXCEPT !.err = s.err]
     ELSE IF key \in DOMAIN w1.items THEN w2
     ELSE EvictLoop(w2, derr)

\* mutant of SetOp: a key of the index is promoted and keeps its old value
SetOpKeepValue(w, key, value, serr, derr) ==
  LET s == StorageSet(w.storage, serr, key, value)
      w1 == [w EXCEPT !.storage = s.data,
                      !.calls = Append(w.calls, Call("Set", key, s.err))]
  IN IF s.err # NoErr THEN [w1 EXCEPT !.err = s.err]
     ELSE IF key \in DOMAIN w1.items
     THEN LET p == w1.items[key]
          IN [w1 EXCEPT !.list = MoveToFront(w1.list, p),
                        !.items = PtrMoveToFront(w1.items, p)]
     ELSE EvictLoop([w1 EXCEPT
                       !.list = PushFront(w1.list, cacheItem(key, value)),
                       !.items = MapPut(PtrPushFront(w1.items), key, 1)],
                    derr)

\* mutant of SetOp: a failed eviction takes the new key back out of the index
SetOpRollback(w, key, value, serr, derr) ==
  LET s == StorageSet(w.storage, serr, key, value)
      w1 == [w EXCEPT !.storage = s.data,
                      !.calls = Append(w.calls, Call("Set", key, s.err))]
  IN IF s.err # NoErr THEN [w1 EXCEPT !.err = s.err]
     ELSE IF key \in DOMAIN w1.items
     THEN LET p == w1.items[key]
          IN [w1 EXCEPT !.list = SetValue(MoveToFront(w1.list, p),
                                          IF p = 0 THEN 0 ELSE 1, value),
                        !.items = PtrMoveToFront(w1.items, p)]
     ELSE LET w2 == EvictLoop([w1 EXCEPT
                       !.list = PushFront(w1.list, cacheItem(key, value)),
                       !.items = MapPut(PtrPushFront(w1.items), key, 1)],
                    derr)
          IN IF w2.err # NoErr /\ key \in DOMAIN w2.items
             THEN [w2 EXCEPT !.list = Remove(w2.list, w2.items[key]),
                             !.items = MapDelete(PtrRemove(w2.items,
                                                           w2.items[key]),
                                                 key)]
             ELSE w2

SetOp(w, key, value, serr, derr) ==
  LET s == StorageSet(w.storage, serr, key, value)
      w1 == [w EXCEPT !.storage = s.data,
                      !.calls = Append(w.calls, Call("Set", key, s.err))]
  IN IF s.err # NoErr THEN [w1 EXCEPT !.err = s.err]
     ELSE IF key \in DOMAIN w1.items
     THEN LET p == w1.items[key]
          IN [w1 EXCEPT !.list = SetValue(MoveToFront(w1.list, p),
                                          IF p = 0 THEN 0 ELSE 1, value),
                        !.items = PtrMoveToFront(w1.items, p)]
     ELSE EvictLoop([w1 EXCEPT
                       !.list = PushFront(w1.list, cacheItem(key, value)),
                       !.items = MapPut(PtrPushFront(w1.items), key, 1)],
                    derr)

\* mutant of DeleteOp: the key leaves the index and the store keeps it
DeleteOpIndexOnly(w, key, derr) ==
  IF key \in DOMAIN w.items
  THEN [w EXCEPT !.list = Remove(w.list, w.items[key]),
                 !.items = MapDelete(PtrRemove(w.items, w.items[key]), key)]
  ELSE w

\* mutant of DeleteOp: the store's Delete is called only for a key that was
\* in the index
DeleteOpOnlyIfCached(w, key, derr) ==
  IF key \in DOMAIN w.items
  THEN LET w1 == [w EXCEPT !.list = Remove(w.list, w.items[key]),
                           !.items = MapDelete(PtrRemove(w.items, w.items[key]),
                                               key)]
           d == StorageDelete(w1.storage, derr, key)
       IN [w1 EXCEPT !.storage = d.data,
                     !.calls = Append(w1.calls, Call("Delete", key, d.err)),
                     !.err = d.err]
  ELSE w

DeleteOp(w, key, derr) ==
  LET w1 == IF key \in DOMAIN w.items
            THEN [w EXCEPT !.list = Remove(w.list, w.items[key]),
                           !.items = MapDelete(PtrRemove(w.items, w.items[key]),
                                               key)]
            ELSE w
      d == StorageDelete(w1.storage, derr, key)
  IN [w1 EXCEPT !.storage = d.data,
                !.calls = Append(w1.calls, Call("Delete", key, d.err)),
                !.err = d.err]

\* ------------------------------------------------------- observations
\* the keys of the index, as the list and as the map see them
ListKeys == {list[i].key : i \in 1..Len(list)}
IndexKeys == DOMAIN items

\* key k moved to the front of the order of last touches
Touch(t, k) == <<k>> \o SelectSeq(t, LAMBDA x : x # k)

\* the order of last touches without the keys of the set gone
Forget(t, gone) == SelectSeq(t, LAMBDA x : x \notin gone)

\* the keys an operation takes out of the index: the key of a Delete call
\* and the keys it evicted
Gone(op, key, w) ==
  {w.evicted[i] : i \in 1..Len(w.evicted)}
    \cup (IF op = "Delete" THEN {key} ELSE {})

\* an operation touches its key when it reaches the index with it
Touched(op, hit, w) ==
  \/ op = "Get" /\ (hit \/ (w.calls[1].err = NoErr /\ w.err # ErrRead))
  \/ op = "Set" /\ w.calls[1].err = NoErr

\* what the last operation was and did; value is the value it wrote to the
\* store, NoVal when it wrote none
Record(op, key, value, hit, w) ==
  [op |-> op, key |-> key,
   value |-> IF op = "Set" /\ w.calls[1].err = NoErr THEN value ELSE NoVal,
   hit |-> hit, ret |-> w.ret,
   err |-> w.err, calls |-> w.calls, evicted |-> w.evicted,
   returned |-> w.returned]

\* the operation's result written back to the cache and the store
Commit(op, key, value, w) ==
  LET hit == key \in DOMAIN items
  IN /\ list' = w.list
     /\ items' = w.items
     /\ storage' = w.storage
     /\ mu' = IF w.returned THEN "unlocked" ELSE "locked"
     /\ last' = Record(op, key, value, hit, w)
     /\ touches' = Forget(IF Touched(op, hit, w) THEN Touch(touches, key)
                                                  ELSE touches,
                          Gone(op, key, w))
     /\ distinctSets' = (/\ distinctSets
                         /\ op = "Set"
                         /\ w.err = NoErr
                         /\ w.returned
                         /\ \A i \in 1..Len(setHistory) : setHistory[i] # key)
     /\ setHistory' = IF distinctSets' THEN <<key>> \o setHistory ELSE <<>>
     /\ UNCHANGED capacity

\* ---------------------------------------------------------- behaviour
\* NewLRUCache(capacity, storage): an empty index over a store that may
\* already hold entries (a file store keeps its contents across restarts)
CacheInit ==
  /\ capacity \in Capacities
  /\ mu = "unlocked"
  /\ list = <<>>
  /\ items = <<>>
  /\ storage \in [Keys -> Values \cup {NoVal}]
  /\ last = [op |-> "New", key |-> 0, value |-> NoVal, hit |-> FALSE,
             ret |-> NoVal, err |-> NoErr, calls |-> <<>>, evicted |-> <<>>,
             returned |-> TRUE]
  /\ touches = <<>>
  /\ distinctSets = TRUE
  /\ setHistory = <<>>

\* no key has been handed to sanitizeKey
SanIdle == san = [pc |-> "none", key |-> <<>>, safe |-> <<>>]

\* the one state of the cache in the behaviours that do not use it
CacheIdle ==
  /\ CacheInit
  /\ capacity = 0
  /\ storage = [k \in Keys |-> NoVal]

\* no store is used directly
StoreIdle ==
  /\ kind = "none"
  /\ mdata = <<>>
  /\ base = [is |-> "dir", data |-> NoVal]
  /\ files = <<>>
  /\ size = 0
  /\ slast = [op |-> "New", key |-> <<>>, ctx |-> NoErr, err |-> NoErr,
              value |-> NoVal, stream |-> "none"]
  /\ written = <<>>

\* no thread is in a method of the cache
ConcIdle ==
  /\ th = <<>>
  /\ pre = <<>>

\* no request; the fields of a request before it has called anything
NoReq == [pc |-> "idle", url |-> 0, getKey |-> 0, cacheErr |-> NoErr,
          fetches |-> 0, outcome |-> "none", sets |-> 0, setKey |-> 0,
          setErr |-> NoErr, err |-> NoErr]
ProcIdle == req = NoReq

Init == CacheInit /\ SanIdle /\ StoreIdle /\ ConcIdle /\ ProcIdle

Get ==
  /\ mu = "unlocked"
  /\ \E key \in Keys, o \in GetOutcomes :
       \E w \in {GetOp(Work(list, items, storage), key, o[1], o[2], o[3])} :
          Commit("Get", key, NoVal, w)
  /\ UNCHANGED <<sanVars, storeVars, concVars, procVars>>

Set ==
  /\ mu = "unlocked"
  /\ \E key \in Keys, value \in Values, o \in SetOutcomes :
       \E w \in {SetOp(Work(list, items, storage), key, value, o[1], o[2])} :
          Commit("Set", key, value, w)
  /\ UNCHANGED <<sanVars, storeVars, concVars, procVars>>

Delete ==
  /\ mu = "unlocked"
  /\ \E key \in Keys, derr \in DeleteOutcomes :
       \E w \in {DeleteOp(Work(list, items, storage), key, derr)} :
          Commit("Delete", key, NoVal, w)
  /\ UNCHANGED <<sanVars, storeVars, concVars, procVars>>

Next == Get \/ Set \/ Delete

Spec == Init /\ [][Next]_vars

\* ------------------------------------------------- FileStorage.sanitizeKey
\* A string is the sequence of its characters.
MaxKeyLen == 3
KeyChars == {"a", ":", "/", "\\", ".", "_"}
empty == <<"e", "m", "p", "t", "y">>
\* "host:8080/path/../file"
HostKey ==
  <<"h", "o", "s", "t", ":", "8", "0", "8", "0", "/", "p", "a", "t", "h",
    "/", ".", ".", "/", "f", "i", "l", "e">>
\* the keys handed to sanitizeKey: every string of up to MaxKeyLen characters
\* and the key of the test table
SanKeys ==
  UNION {[1..n -> KeyChars] : n \in 0..MaxKeyLen} \cup {HostKey}

\* strings.ReplaceAll(s, old, new) for a one-character old
ReplaceChar(s, old, new) ==
  [i \in 1..Len(s) |-> IF s[i] = old THEN new ELSE s[i]]

\* strings.ReplaceAll(s, "..", "__"): the matches are taken left to right
\* and do not overlap
RECURSIVE ReplaceDotDot(_)
ReplaceDotDot(s) ==
  IF Len(s) < 2 THEN s
  ELSE IF s[1] = "." /\ s[2] = "."
  THEN <<"_", "_">> \o ReplaceDotDot(SubSeq(s, 3, Len(s)))
  ELSE <<s[1]>> \o ReplaceDotDot(Tail(s))

\* strings.TrimLeft(s, "_")
RECURSIVE TrimLeft(_)
TrimLeft(s) ==
  IF s # <<>> /\ s[1] = "_" THEN TrimLeft(Tail(s)) ELSE s

sanitizeKey(key) ==
  IF key = <<>> THEN empty
  ELSE TrimLeft(ReplaceDotDot(
         ReplaceChar(ReplaceChar(ReplaceChar(key, ":", "_"), "/", "_"),
                     "\\", "_")))

SanInit ==
  /\ CacheIdle
  /\ StoreIdle
  /\ ConcIdle
  /\ ProcIdle
  /\ san \in {[pc |-> "call", key |-> k, safe |-> <<>>] : k \in SanKeys}

Sanitize ==
  /\ san.pc = "call"
  /\ san' = [san EXCEPT !.pc = "return", !.safe = sanitizeKey(san.key)]
  /\ UNCHANGED <<cacheVars, storeVars, concVars, procVars>>

SanNext == Sanitize

SpecSanitize == SanInit /\ [][SanNext]_vars

\* ------------------------------------------- the stores, used directly
\* Each store method runs under the store's lock from its context check to
\* its return, so concurrent calls are the sequences of these actions.
MaxDrift == 2
ErrDeadline == <<"context deadline exceeded">>
\* ctx.Err() at the entry of a store method
CtxErrs == {NoErr, ErrCanceled, ErrDeadline}
\* keys that sanitize to "empty", to the one name "a_b", and to the empty
\* name
StoreKeys == {<<>>, <<"a", ":", "b">>, <<"a", "/", "b">>, <<"_">>}
\* the names that filepath.Join(baseDir, name) resolves to baseDir itself
OnBase(name) == name \in {<<>>, <<".">>}
FileNames == {sanitizeKey(k) : k \in StoreKeys} \ {<<>>, <<".">>}

\* os.Stat(filepath.Join(baseDir, name))
Stat(b, f, name) ==
  IF OnBase(name) THEN (IF b.is = "absent" THEN "notexist" ELSE "ok")
  ELSE IF b.is = "absent" THEN "notexist"
  ELSE IF b.is = "file" THEN "notdir"
  ELSE IF f[name] = NoVal THEN "notexist"
  ELSE "ok"

\* the state of a FileStorage and the result of a method
FS(b, f, n, value, stream, err) ==
  [base |-> b, files |-> f, size |-> n, value |-> value, stream |-> stream,
   err |-> err]

FileGet(b, f, n, ctxErr, key) ==
  LET name == sanitizeKey(key)
      st == Stat(b, f, name)
  IN IF ctxErr # NoErr THEN FS(b, f, n, NoVal, "none", ctxErr)
     ELSE IF st = "notexist" THEN FS(b, f, n, NoVal, "none", ErrNotExist)
     ELSE IF st = "notdir"
     THEN FS(b, f, n, NoVal, "none",
             <<"failed to open file: ", "not a directory">>)
     ELSE IF OnBase(name)
     THEN (IF b.is = "dir" THEN FS(b, f, n, NoVal, "dir", NoErr)
           ELSE FS(b, f, n, b.data, "file", NoErr))
     ELSE FS(b, f, n, f[name], "file", NoErr)

FileSet(b, f, n, ctxErr, key, value) ==
  LET name == sanitizeKey(key)
      exists == Stat(b, f, name) # "notexist"
      n1 == IF exists THEN n ELSE n + 1
      dirb == [is |-> "dir", data |-> NoVal]
  IN IF ctxErr # NoErr THEN FS(b, f, n, NoVal, "none", ctxErr)
     ELSE IF OnBase(name)
     THEN (IF b.is = "dir"
           THEN FS(b, f, n, NoVal, "none",
                   <<"failed to write file: ", "is a directory">>)
           ELSE FS([is |-> "file", data |-> value], f, n1, NoVal, "none",
                   NoErr))
     ELSE IF b.is = "file"
     THEN FS(b, f, n, NoVal, "none",
             <<"failed to create directories: ", "not a directory">>)
     ELSE FS(dirb, [f EXCEPT ![name] = value], n1, NoVal, "none", NoErr)

FileDelete(b, f, n, ctxErr, key) ==
  LET name == sanitizeKey(key)
      st == Stat(b, f, name)
      gone == [is |-> "absent", data |-> NoVal]
  IN IF ctxErr # NoErr THEN FS(b, f, n, NoVal, "none", ctxErr)
     ELSE IF st = "notexist" THEN FS(b, f, n, NoVal, "none", NoErr)
     ELSE IF st = "notdir"
     THEN FS(b, f, n, NoVal, "none",
             <<"failed to delete file: ", "not a directory">>)
     ELSE IF OnBase(name)
     THEN (IF b.is = "dir" /\ \E x \in DOMAIN f : f[x] # NoVal
           THEN FS(b, f, n, NoVal, "none",
                   <<"failed to delete file: ", "directory not empty">>)
           ELSE FS(gone, f, n - 1, NoVal, "none", NoErr))
     ELSE FS(b, [f EXCEPT ![name] = NoVal], n - 1, NoVal, "none", NoErr)

\* MemoryStorage.Size and FileStorage.Size
Size == IF kind = "memory"
        THEN Cardinality({k \in DOMAIN mdata : mdata[k] # NoVal})
        ELSE size

\* NewMemoryStorage(), or NewFileStorage(baseDir) on an empty directory
StoreInit ==
  /\ CacheIdle
  /\ SanIdle
  /\ ConcIdle
  /\ ProcIdle
  /\ kind \in {"memory", "file"}
  /\ mdata = [k \in StoreKeys |-> NoVal]
  /\ base = [is |-> "dir", data |-> NoVal]
  /\ files = [x \in FileNames |-> NoVal]
  /\ size = 0
  /\ slast = [op |-> "New", key |-> <<>>, ctx |-> NoErr, err |-> NoErr,
              value |-> NoVal, stream |-> "none"]
  /\ written = [k \in StoreKeys |-> NoVal]

\* the result r of a method of the file store written back
FileCommit(op, key, ctxErr, r) ==
  /\ base' = r.base
  /\ files' = r.files
  /\ size' = r.size
  /\ slast' = [op |-> op, key |-> key, ctx |-> ctxErr, err |-> r.err,
               value |-> r.value, stream |-> r.stream]
  /\ UNCHANGED <<kind, mdata>>

StoreGet ==
  /\ kind \in {"memory", "file"}
  /\ \E key \in StoreKeys, ctxErr \in CtxErrs :
       /\ IF kind = "file"
          THEN \E r \in {FileGet(base, files, size, ctxErr, key)} :
                  FileCommit("Get", key, ctxErr, r)
          ELSE \E r \in {StorageGet(mdata, ctxErr, key)} :
                  /\ slast' = [op |-> "Get", key |-> key, ctx |-> ctxErr,
                               err |-> r.err, value |-> r.value,
                               stream |-> IF r.err = NoErr THEN "file"
                                                           ELSE "none"]
                  /\ UNCHANGED <<kind, mdata, base, files, size>>
       /\ UNCHANGED written
  /\ UNCHANGED <<cacheVars, sanVars, concVars, procVars>>

StoreSet ==
  /\ kind \in {"memory", "file"}
  /\ size <= MaxDrift
  /\ \E key \in StoreKeys, value \in Values, ctxErr \in CtxErrs :
       /\ IF kind = "file"
          THEN \E r \in {FileSet(base, files, size, ctxErr, key, value)} :
                  FileCommit("Set", key, ctxErr, r)
          ELSE \E r \in {StorageSet(mdata, ctxErr, key, value)} :
                  /\ mdata' = r.data
                  /\ slast' = [op |-> "Set", key |-> key, ctx |-> ctxErr,
                               err |-> r.err, value |-> NoVal,
                               stream |-> "none"]
                  /\ UNCHANGED <<kind, base, files, size>>
       /\ written' = IF slast'.err = NoErr
                     THEN [written EXCEPT ![key] = value] ELSE written
  /\ UNCHANGED <<cacheVars, sanVars, concVars, procVars>>

StoreDelete ==
  /\ kind \in {"memory", "file"}
  /\ size >= 0 - MaxDrift
  /\ \E key \in StoreKeys, ctxErr \in CtxErrs :
       /\ IF kind = "file"
          THEN \E r \in {FileDelete(base, files, size, ctxErr, key)} :
                  FileCommit("Delete", key, ctxErr, r)
          ELSE \E r \in {StorageDelete(mdata, ctxErr, key)} :
                  /\ mdata' = r.data
                  /\ slast' = [op |-> "Delete", key |-> key, ctx |-> ctxErr,
                               err |-> r.err, value |-> NoVal,
                               stream |-> "none"]
                  /\ UNCHANGED <<kind, base, files, size>>
       /\ written' = IF slast'.err = NoErr
                     THEN [written EXCEPT ![key] = NoVal] ELSE written
  /\ UNCHANGED <<cacheVars, sanVars, concVars, procVars>>

StoreNext == StoreGet \/ StoreSet \/ StoreDelete

SpecStore == StoreInit /\ [][StoreNext]_vars

\* ------------------------------------- several threads call one cache
\* One action is one statement of Get, Set, Delete or removeOldest run by
\* one thread; the store does not fail and is reached only through the cache.
NumThreads == 2
Threads == 1..NumThreads

\* a thread outside the cache
Idle == [pc |-> "idle", op |-> "none", key |-> 0, value |-> NoVal,
         ret |-> NoVal, err |-> NoErr, victim |-> 0]

\* the calls a thread makes
ConcCalls ==
  {[Idle EXCEPT !.pc = "lookup", !.op = "Get", !.key = k] : k \in Keys}
  \cup {[Idle EXCEPT !.pc = "storeSet", !.op = "Set", !.key = k, !.value = v] :
          k \in Keys, v \in Values}
  \cup {[Idle EXCEPT !.pc = "delIndex", !.op = "Delete", !.key = k] :
          k \in Keys}

\* mutant of TryLock: the lock is granted while another thread holds it
TryLockAlways(m) == TRUE

\* c.mu.Lock() can return
TryLock(m) == m = "unlocked"

Snapshot == [list |-> list, items |-> items, storage |-> storage]
NoPre == [list |-> <<>>, items |-> <<>>, storage |-> <<>>]

ConcInit ==
  /\ CacheInit
  /\ capacity >= 0
  /\ storage = [k \in Keys |-> NoVal]
  /\ SanIdle
  /\ StoreIdle
  /\ ProcIdle
  /\ th = [t \in Threads |-> Idle]
  /\ pre = NoPre

ghostVars == <<last, touches, distinctSets, setHistory>>

\* the thread enters Get, Set or Delete and takes the lock
ThreadLock(t) ==
  /\ th[t].pc = "idle"
  /\ TryLock(mu)
  /\ mu' = "locked"
  /\ \E c \in ConcCalls : th' = [th EXCEPT ![t] = c]
  /\ pre' = Snapshot
  /\ UNCHANGED <<capacity, list, items, storage>>

\* Get: if elem, ok := c.items[key]; ok { MoveToFront; return value }
GetLookup(t) ==
  /\ th[t].pc = "lookup"
  /\ IF th[t].key \in DOMAIN items
     THEN LET p == items[th[t].key]
          IN /\ list' = MoveToFront(list, p)
             /\ items' = PtrMoveToFront(items, p)
             /\ th' = [th EXCEPT ![t].pc = "unlock", ![t].ret = list[p].value]
     ELSE /\ th' = [th EXCEPT ![t].pc = "storeGet"]
          /\ UNCHANGED <<list, items>>
  /\ UNCHANGED <<capacity, mu, storage, pre>>

\* Get: data, err := c.storage.Get(ctx, key) and io.ReadAll(data)
StoreGetStep(t) ==
  /\ th[t].pc = "storeGet"
  /\ LET g == StorageGet(storage, NoErr, th[t].key)
     IN th' = IF g.err # NoErr
              THEN [th EXCEPT ![t].pc = "unlock", ![t].err = g.err]
              ELSE [th EXCEPT ![t].pc = "insert", ![t].value = g.value]
  /\ UNCHANGED <<capacity, mu, list, items, storage, pre>>

\* Set: c.storage.Set(ctx, key, value)
StoreSetStep(t) ==
  /\ th[t].pc = "storeSet"
  /\ storage' = StorageSet(storage, NoErr, th[t].key, th[t].value).data
  /\ th' = [th EXCEPT ![t].pc = "setIndex"]
  /\ UNCHANGED <<capacity, mu, list, items, pre>>

\* Set: if elem, ok := c.items[key]; ok { MoveToFront; value = value }
SetIndex(t) ==
  /\ th[t].pc = "setIndex"
  /\ IF th[t].key \in DOMAIN items
     THEN LET p == items[th[t].key]
          IN /\ list' = SetValue(MoveToFront(list, p),
                                 IF p = 0 THEN 0 ELSE 1, th[t].value)
             /\ items' = PtrMoveToFront(items, p)
             /\ th' = [th EXCEPT ![t].pc = "unlock"]
     ELSE /\ th' = [th EXCEPT ![t].pc = "insert"]
          /\ UNCHANGED <<list, items>>
  /\ UNCHANGED <<capacity, mu, storage, pre>>

\* Get and Set: PushFront and c.items[key] = elem; Get: if Len() > capacity
Insert(t) ==
  /\ th[t].pc = "insert"
  /\ list' = PushFront(list, cacheItem(th[t].key, th[t].value))
  /\ items' = MapPut(PtrPushFront(items), th[t].key, 1)
  /\ th' = IF th[t].op = "Set" THEN [th EXCEPT ![t].pc = "loopTest"]
           ELSE IF Len(list') > capacity
           THEN [th EXCEPT ![t].pc = "evictIndex"]
           ELSE [th EXCEPT ![t].pc = "unlock", ![t].ret = th[t].value]
  /\ UNCHANGED <<capacity, mu, storage, pre>>

\* Set: for c.list.Len() > c.capacity
LoopTest(t) ==
  /\ th[t].pc = "loopTest"
  /\ th' = IF Len(list) > capacity
           THEN [th EXCEPT ![t].pc = "evictIndex"]
           ELSE [th EXCEPT ![t].pc = "unlock"]
  /\ UNCHANGED <<capacity, mu, list, items, storage, pre>>

\* where the caller of removeOldest goes on: Get returns, Set tests the
\* length again
AfterEvict(r) ==
  IF r.op = "Set" THEN [r EXCEPT !.pc = "loopTest"]
  ELSE [r EXCEPT !.pc = "unlock", !.ret = r.value]

\* removeOldest: elem := c.list.Back(); delete(c.items, key); Remove(elem)
EvictIndex(t) ==
  /\ th[t].pc = "evictIndex"
  /\ IF Back(list) = 0
     THEN /\ th' = [th EXCEPT ![t] = AfterEvict(th[t])]
          /\ UNCHANGED <<list, items>>
     ELSE LET p == Back(list)
          IN /\ items' = PtrRemove(MapDelete(items, list[p].key), p)
             /\ list' = Remove(list, p)
             /\ th' = [th EXCEPT ![t].pc = "evictStore",
                                 ![t].victim = list[p].key]
  /\ UNCHANGED <<capacity, mu, storage, pre>>

\* removeOldest: c.storage.Delete(ctx, item.key)
EvictStore(t) ==
  /\ th[t].pc = "evictStore"
  /\ storage' = StorageDelete(storage, NoErr, th[t].victim).data
  /\ th' = [th EXCEPT ![t] = AfterEvict(th[t])]
  /\ UNCHANGED <<capacity, mu, list, items, pre>>

\* Delete: if elem, ok := c.items[key]; ok { Remove; delete }
DeleteIndex(t) ==
  /\ th[t].pc = "delIndex"
  /\ IF th[t].key \in DOMAIN items
     THEN LET p == items[th[t].key]
          IN /\ list' = Remove(list, p)
             /\ items' = MapDelete(PtrRemove(items, p), th[t].key)
     ELSE UNCHANGED <<list, items>>
  /\ th' = [th EXCEPT ![t].pc = "delStore"]
  /\ UNCHANGED <<capacity, mu, storage, pre>>

\* Delete: return c.storage.Delete(ctx, key)
DeleteStore(t) ==
  /\ th[t].pc = "delStore"
  /\ storage' = StorageDelete(storage, NoErr, th[t].key).data
  /\ th' = [th EXCEPT ![t].pc = "unlock"]
  /\ UNCHANGED <<capacity, mu, list, items, pre>>

\* the deferred c.mu.Unlock() and the return
ThreadUnlock(t) ==
  /\ th[t].pc = "unlock"
  /\ mu' = "unlocked"
  /\ th' = [th EXCEPT ![t] = Idle]
  /\ pre' = NoPre
  /\ UNCHANGED <<capacity, list, items, storage>>

ThreadStep(t) ==
  \/ ThreadLock(t)
  \/ GetLookup(t)
  \/ StoreGetStep(t)
  \/ StoreSetStep(t)
  \/ SetIndex(t)
  \/ Insert(t)
  \/ LoopTest(t)
  \/ EvictIndex(t)
  \/ EvictStore(t)
  \/ DeleteIndex(t)
  \/ DeleteStore(t)
  \/ ThreadUnlock(t)

ConcNext ==
  /\ \E t \in Threads : ThreadStep(t)
  /\ UNCHANGED <<ghostVars, sanVars, storeVars, procVars>>

SpecConc == ConcInit /\ [][ConcNext]_vars

\* The same threads over a cache of any configured capacity, each thread
\* scheduled again and again while it has a statement to run.
LiveInit ==
  /\ CacheInit
  /\ storage = [k \in Keys |-> NoVal]
  /\ SanIdle
  /\ StoreIdle
  /\ ProcIdle
  /\ th = [t \in Threads |-> Idle]
  /\ pre = NoPre

Fairness ==
  \A t \in Threads :
     WF_vars(/\ ThreadStep(t)
             /\ UNCHANGED <<ghostVars, sanVars, storeVars, procVars>>)

SpecLive == LiveInit /\ [][ConcNext]_vars /\ Fairness

\* ------------------------------------ ImageProcessor.GetOriginalImage
\* One request at a time over a cache and a store that may fail; the URLs
\* are the keys.

\* errors.Is(err, target): target is err or one of the errors it wraps
Is(err, target) ==
  \E i \in 1..Len(err) : SubSeq(err, i, Len(err)) = target

\* mutant of MustFetch: every cache error leads to the origin
MustFetchAnyErr(err) == err # NoErr

\* } else if !errors.Is(err, os.ErrNotExist) { return ... } is not taken
MustFetch(err) == Is(err, ErrNotExist)

\* what the origin and the image codecs do with a fetch: the download fails,
\* the status is not 200, the body does not decode, the image does not
\* encode as JPEG, or all of it succeeds
FetchOutcomes == {"download", "status", "decode", "encode", "ok"}
FetchErr(out) ==
  IF out = "download"
  THEN <<"failed to download image: ", "connection refused">>
  ELSE IF out = "status" THEN <<"server returned status: 404">>
  ELSE IF out = "decode"
  THEN <<"failed to decode image: ", "image: unknown format">>
  ELSE IF out = "encode"
  THEN <<"failed to encode image for cache: ", "image is too large to encode">>
  ELSE NoErr

\* the cache after one of its methods, with result w, has run
CacheCommit(w) ==
  /\ list' = w.list
  /\ items' = w.items
  /\ storage' = w.storage
  /\ mu' = IF w.returned THEN "unlocked" ELSE "locked"

\* where the request goes with the result of p.cache.Get
AfterGet(r) ==
  IF r.cacheErr = NoErr THEN [r EXCEPT !.pc = "decode"]
  ELSE IF MustFetch(r.cacheErr) THEN [r EXCEPT !.pc = "fetch"]
  ELSE [r EXCEPT !.pc = "done",
                 !.err = <<"failed to get from cache: ">> \o r.cacheErr]

ProcInit ==
  /\ CacheInit
  /\ SanIdle
  /\ StoreIdle
  /\ ConcIdle
  /\ ProcIdle

\* cacheKey := url; cachedData, err := p.cache.Get(ctx, cacheKey)
ProcGet ==
  /\ req.pc = "idle"
  /\ mu = "unlocked"
  /\ \E url \in Keys, o \in GetOutcomes :
       \E w \in {GetOp(Work(list, items, storage), url, o[1], o[2], o[3])} :
          /\ CacheCommit(w)
          /\ req' = AfterGet([NoReq EXCEPT !.url = url, !.getKey = url,
                                           !.cacheErr = w.err])

\* image.Decode(cachedData)
ProcDecode ==
  /\ req.pc = "decode"
  /\ \E ok \in BOOLEAN :
       req' = [req EXCEPT
                 !.pc = "done",
                 !.err = IF ok THEN NoErr
                         ELSE <<"failed to decode cached image: ",
                                "image: unknown format">>]
  /\ UNCHANGED <<list, items, storage, mu>>

\* p.client.Do(req), the status test, image.Decode and imaging.Encode
ProcFetch ==
  /\ req.pc = "fetch"
  /\ \E out \in FetchOutcomes :
       req' = [req EXCEPT !.pc = IF out = "ok" THEN "set" ELSE "done",
                          !.fetches = req.fetches + 1,
                          !.outcome = out,
                          !.err = FetchErr(out)]
  /\ UNCHANGED <<list, items, storage, mu>>

\* p.cache.Set(ctx, cacheKey, buf.Bytes())
ProcSet ==
  /\ req.pc = "set"
  /\ mu = "unlocked"
  /\ \E value \in Values, o \in SetOutcomes :
       \E w \in {SetOp(Work(list, items, storage), req.url, value,
                       o[1], o[2])} :
          /\ CacheCommit(w)
          /\ req' = [req EXCEPT
                       !.pc = IF w.returned THEN "done" ELSE "hung",
                       !.sets = req.sets + 1,
                       !.setKey = req.url,
                       !.setErr = w.err,
                       !.err = IF w.err # NoErr
                               THEN <<"failed to cache image: ">> \o w.err
                               ELSE NoErr]

\* return img, err
ProcReturn ==
  /\ req.pc = "done"
  /\ req' = NoReq
  /\ UNCHANGED <<list, items, storage, mu>>

ProcNext ==
  /\ ProcGet \/ ProcDecode \/ ProcFetch \/ ProcSet \/ ProcReturn
  /\ UNCHANGED <<capacity, ghostVars, sanVars, storeVars, concVars>>

SpecProc == ProcInit /\ [][ProcNext]_vars

\* --------------------------------------------------------------- claims
\* the value the index holds for key k
IndexValue(l, k) == l[CHOOSE i \in 1..Len(l) : l[i].key = k].value

\* how long ago key k was last touched: its place in the order of last
\* touches, past the end for a key that was never touched
TouchRank(t, k) ==
  IF \E i \in 1..Len(t) : t[i] = k
  THEN CHOOSE i \in 1..Len(t) : t[i] = k
  ELSE Len(t) + 1

\* the store calls of the last operation that are Deletes
DeleteCalls(calls) == {i \in 1..Len(calls) : calls[i].m = "Delete"}

\* C1: with capacity C >= 0, after every operation that has returned, with
\* or without an error, the list and the items map hold at most C entries.
C1_CapacityBound ==
  (capacity >= 0 /\ last.returned) =>
     /\ Len(list) <= capacity
     /\ Cardinality(DOMAIN items) <= capacity

\* a Set that filled the index to its capacity and whose eviction failed
C1_Witness ==
  /\ capacity >= 1
  /\ last.op = "Set"
  /\ last.evicted # <<>>
  /\ last.err # NoErr
  /\ Len(list) = capacity

\* C2: after N > C successful Set calls with distinct keys on a new cache of
\* capacity C > 0, the index holds exactly the C keys set last, and every
\* key set before them is absent from the store.
C2_DistinctSets ==
  (distinctSets /\ capacity > 0 /\ Len(setHistory) > capacity) =>
     /\ ListKeys = {setHistory[i] : i \in 1..capacity}
     /\ IndexKeys = {setHistory[i] : i \in 1..capacity}
     /\ Len(list) = capacity
     /\ \A i \in (capacity + 1)..Len(setHistory) :
          storage[setHistory[i]] = NoVal

\* three distinct keys set into a cache of capacity 2
C2_Witness ==
  /\ distinctSets
  /\ capacity = 2
  /\ Len(setHistory) = 3

\* C3: with capacity C > 0, an operation that evicts, evicts one key, which
\* is the key of the index that was touched longest ago; and after a Get
\* hit the key read is not the next victim when the index holds another key.
C3_StrictLRU ==
  [][/\ (capacity > 0 /\ last'.evicted # <<>>) =>
          /\ Len(last'.evicted) = 1
          /\ last'.evicted[1] \in IndexKeys
          /\ \A k \in IndexKeys \ {last'.evicted[1]} :
               TouchRank(touches, k) < TouchRank(touches, last'.evicted[1])
     /\ (last'.op = "Get" /\ last'.hit /\ Len(list) >= 2) =>
          list'[Len(list')].key # last'.key
    ]_vars

\* capacity 2 holding keys 1 and 2 with 1 touched last: Set of 3 evicts 2
C3_Witness ==
  /\ capacity = 2
  /\ last.op = "Set"
  /\ last.key = 3
  /\ last.err = NoErr
  /\ last.evicted = <<2>>
  /\ Len(list) = 2
  /\ list[1].key = 3
  /\ list[2].key = 1

\* C4: a Get of a key of the index calls no store method, leaves the store
\* and the keys of the index as they were and returns the indexed bytes.
C4_GetHitFrame ==
  [][(last'.op = "Get" /\ last'.hit) =>
       /\ last'.calls = <<>>
       /\ storage' = storage
       /\ IndexKeys' = IndexKeys
       /\ ListKeys' = ListKeys
       /\ Len(list') = Len(list)
       /\ last'.err = NoErr
       /\ last'.ret = IndexValue(list, last'.key)
    ]_vars

\* a Get hit that returned the indexed bytes from an index of two or more
\* keys, the key read now at the front
C4_Witness ==
  /\ last.op = "Get"
  /\ last.hit
  /\ last.ret # NoVal
  /\ Len(list) >= 2
  /\ list[1].key = last.key

\* C5: a Set whose store write fails returns the store's error, leaves the
\* list and the items map exactly as they were and calls no store Delete.
C5_SetAtomicOnStoreFailure ==
  [][(last'.op = "Set" /\ last'.calls[1].err # NoErr) =>
       /\ last'.err = last'.calls[1].err
       /\ list' = list
       /\ items' = items
       /\ DeleteCalls(last'.calls) = {}
       /\ last'.evicted = <<>>
    ]_vars

\* a failed Set of a key the full index holds behind the front
C5_Witness ==
  /\ last.op = "Set"
  /\ last.calls[1].err # NoErr
  /\ last.hit
  /\ capacity >= 2
  /\ Len(list) = capacity
  /\ list[1].key # last.key

\* C6 as stated: a key that leaves the index is absent from the store when
\* the operation ends, whatever the store's Delete returned.
C6_Original ==
  [][\A k \in Keys :
       (k \in IndexKeys /\ k \notin IndexKeys') => storage'[k] = NoVal
    ]_vars

\* C6 amended: for a key that leaves the index the store's Delete is called
\* in the same operation, and the key is absent from the store afterwards
\* when that Delete returned no error.
C6_DeleteAccompanies ==
  [][\A k \in Keys :
       (k \in IndexKeys /\ k \notin IndexKeys') =>
          \E i \in DeleteCalls(last'.calls) :
             /\ last'.calls[i].key = k
             /\ (last'.calls[i].err = NoErr => storage'[k] = NoVal)
             /\ (last'.calls[i].err # NoErr => storage'[k] = storage[k])
    ]_vars

\* an explicit Delete of an indexed key, or an eviction by a Set, with a
\* store Delete that succeeded
C6_Witness ==
  /\ capacity >= 1
  /\ last.op \in {"Delete", "Set"}
  /\ last.err = NoErr
  /\ DeleteCalls(last.calls) # {}
  /\ (last.op = "Delete" => last.hit)
  /\ \A i \in DeleteCalls(last.calls) :
       /\ last.calls[i].key \notin IndexKeys
       /\ storage[last.calls[i].key] = NoVal

\* C7 as stated: with capacity <= 0 a successful Set(k, v) leaves k out of
\* the index and the store holding v under k.
C7_Original ==
  (capacity <= 0 /\ last.op = "Set" /\ last.returned /\ last.err = NoErr) =>
     /\ last.key \notin IndexKeys
     /\ storage[last.key] = last.value

\* C7 amended: with capacity <= 0 a successful Set(k, v) evicts k from the
\* index and the eviction deletes k from the store, which no longer holds k.
C7_ZeroCapacitySet ==
  (capacity <= 0 /\ last.op = "Set" /\ last.returned /\ last.err = NoErr) =>
     /\ last.key \notin IndexKeys
     /\ last.key \notin ListKeys
     /\ last.evicted = <<last.key>>
     /\ last.calls = <<Call("Set", last.key, NoErr),
                       Call("Delete", last.key, NoErr)>>
     /\ storage[last.key] = NoVal

\* a Set that returned nil on a cache of capacity 0
C7_Witness ==
  /\ capacity = 0
  /\ last.op = "Set"
  /\ last.returned
  /\ last.err = NoErr

\* C8: with capacity <= 0 the index is empty after every operation that has
\* returned.
C8_ZeroCapacityEmpty ==
  (capacity <= 0 /\ last.returned) =>
     /\ list = <<>>
     /\ IndexKeys = {}

\* a read-through Get on a cache of capacity <= 0 that read the store
C8_Witness ==
  /\ capacity <= 0
  /\ last.op = "Get"
  /\ last.calls # <<>>
  /\ last.calls[1] = Call("Get", last.key, NoErr)
  /\ last.ret # NoVal

\* C9 as stated: a Get of a key the store holds and the index does not,
\* whose store read succeeds, returns the store's value and leaves the key
\* at the front of the index.
C9_Original ==
  [][(/\ last'.op = "Get" /\ ~last'.hit /\ storage[last'.key] # NoVal
      /\ last'.calls[1].err = NoErr /\ last'.err # ErrRead) =>
       /\ last'.ret = storage[last'.key]
       /\ list' # <<>>
       /\ list'[1] = cacheItem(last'.key, storage[last'.key])
    ]_vars

\* C9 amended: such a Get, when the store read succeeds, inserts the key
\* with the store's value at the front and, if the index is then over
\* capacity, evicts the entry at the back from the index and calls the
\* store's Delete for it (with capacity <= 0 that entry is the inserted key
\* itself); it returns the store's value unless that Delete fails, and then
\* it returns the wrapped error of the Delete.
C9_ReadThrough ==
  [][(/\ last'.op = "Get" /\ ~last'.hit /\ storage[last'.key] # NoVal
      /\ last'.calls[1].err = NoErr /\ last'.err # ErrRead) =>
       LET key == last'.key
           pushed == <<cacheItem(key, storage[key])>> \o list
           over == Len(pushed) > capacity
           victim == pushed[Len(pushed)].key
       IN /\ last'.calls[1] = Call("Get", key, NoErr)
          /\ ~over => /\ list' = pushed
                      /\ items'[key] = 1
                      /\ last'.evicted = <<>>
                      /\ Len(last'.calls) = 1
          /\ over => /\ list' = SubSeq(pushed, 1, Len(pushed) - 1)
                     /\ victim \notin IndexKeys'
                     /\ last'.evicted = <<victim>>
                     /\ Len(last'.calls) = 2
                     /\ last'.calls[2].m = "Delete"
                     /\ last'.calls[2].key = victim
                     /\ last'.calls[2].err = NoErr => storage'[victim] = NoVal
          /\ capacity <= 0 => (over /\ victim = key)
          /\ (over /\ last'.calls[2].err # NoErr) =>
                /\ last'.err = WrapDelete(last'.calls[2].err)
                /\ last'.ret = NoVal
          /\ (~over \/ last'.calls[2].err = NoErr) =>
                /\ last'.err = NoErr
                /\ last'.ret = storage[key]
    ]_vars

\* a read-through Get that returned the store's value and evicted the key
\* at the back of a full index
C9_Witness ==
  /\ capacity >= 1
  /\ last.op = "Get"
  /\ ~last.hit
  /\ last.err = NoErr
  /\ last.ret # NoVal
  /\ last.evicted # <<>>
  /\ list[1] = cacheItem(last.key, last.ret)
  /\ storage[last.key] = last.ret

\* C10: a Get of a key that neither the index nor the store holds returns
\* the error of the store's Get as it is, not-found when the store reports
\* the key missing, and evicts nothing, calls no store Delete and leaves the
\* index and the store as they were.
C10_GetNotFound ==
  [][(last'.op = "Get" /\ ~last'.hit /\ storage[last'.key] = NoVal) =>
       /\ Len(last'.calls) = 1
       /\ last'.calls[1].m = "Get"
       /\ last'.calls[1].key = last'.key
       /\ last'.calls[1].err \in {ErrNotExist} \cup StoreErrs
       /\ last'.err = last'.calls[1].err
       /\ last'.ret = NoVal
       /\ last'.evicted = <<>>
       /\ list' = list
       /\ items' = items
       /\ storage' = storage
    ]_vars

\* a Get that returned not-found on a cache that holds other keys
C10_Witness ==
  /\ last.op = "Get"
  /\ last.err = ErrNotExist
  /\ last.calls = <<Call("Get", last.key, ErrNotExist)>>
  /\ list # <<>>

\* the list without the element of key k
Without(l, k) == SelectSeq(l, LAMBDA it : it.key # k)

\* C11: a Set of a key of the index whose store write succeeds puts the key
\* at the front with the new value, leaves the number of entries, the other
\* entries and their order as they were, evicts nothing and calls no store
\* Delete.
C11_SetExisting ==
  [][(last'.op = "Set" /\ last'.hit /\ last'.calls[1].err = NoErr) =>
       /\ list' = <<cacheItem(last'.key, last'.value)>>
                    \o Without(list, last'.key)
       /\ items'[last'.key] = 1
       /\ Len(list') = Len(list)
       /\ IndexKeys' = IndexKeys
       /\ ListKeys' = ListKeys
       /\ last'.evicted = <<>>
       /\ last'.calls = <<Call("Set", last'.key, NoErr)>>
       /\ last'.err = NoErr
       /\ storage'[last'.key] = last'.value
    ]_vars

\* a Set of value 2 on a key the index holds along with another key
C11_Witness ==
  /\ last.op = "Set"
  /\ last.hit
  /\ last.err = NoErr
  /\ last.value = 2
  /\ Len(list) >= 2
  /\ list[1] = cacheItem(last.key, 2)

\* C12: Delete(k) takes k out of the index and calls the store's Delete for
\* k exactly once, whether or not the index held k; for a key that neither
\* the index nor the store holds it returns nil and changes nothing; and
\* after a Delete whose store call succeeded neither holds k, so that a
\* second Delete(k) is such a call.
C12_Delete ==
  [][last'.op = "Delete" =>
       /\ last'.calls = <<Call("Delete", last'.key, last'.err)>>
       /\ last'.key \notin IndexKeys'
       /\ list' = Without(list, last'.key)
       /\ IndexKeys' = IndexKeys \ {last'.key}
       /\ last'.evicted = <<>>
       /\ last'.err = NoErr => storage'[last'.key] = NoVal
       /\ (/\ last'.key \notin IndexKeys
           /\ storage[last'.key] = NoVal
           /\ last'.err \notin StoreErrs) =>
             /\ last'.err = NoErr
             /\ list' = list
             /\ items' = items
             /\ storage' = storage
    ]_vars

\* a successful Delete of a key that neither the index nor the store held,
\* on a cache that holds other keys
C12_Witness ==
  /\ last.op = "Delete"
  /\ ~last.hit
  /\ last.err = NoErr
  /\ last.calls = <<Call("Delete", last.key, NoErr)>>
  /\ list # <<>>
  /\ \E k \in Keys : k # last.key /\ storage[k] # NoVal

\* C13: when the store's Delete of an eviction fails with E, the Get or Set
\* returns the error "failed to delete from storage: " + E, which unwraps to
\* E; an error of the operation's own store call or read is returned bare.
C13_EvictionErrorWrapped ==
  last.op \in {"Get", "Set"} =>
     /\ \A i \in DeleteCalls(last.calls) :
          last.calls[i].err # NoErr =>
             /\ last.err = <<"failed to delete from storage: ">>
                             \o last.calls[i].err
             /\ Unwrap(last.err) = last.calls[i].err
     /\ last.calls # <<>> =>
          (last.calls[1].err # NoErr =>
              /\ last.err = last.calls[1].err
              /\ last.err[1] # "failed to delete from storage: ")
     /\ (last.err # NoErr /\ DeleteCalls(last.calls) = {}) =>
          last.err[1] # "failed to delete from storage: "

\* a Set whose eviction failed with "context canceled"
C13_Witness ==
  /\ last.op = "Set"
  /\ last.evicted # <<>>
  /\ last.err = <<"failed to delete from storage: ", "context canceled">>

\* C20: a Get evicts at most one key and calls the store's Delete at most
\* once, and so does a Set when the capacity is positive.
C20_AtMostOneEviction ==
  (last.op = "Get" \/ (last.op = "Set" /\ capacity > 0)) =>
     /\ Len(last.evicted) <= 1
     /\ Cardinality(DeleteCalls(last.calls)) <= 1

\* a read-through Get into a full index, which evicted one key
C20_Witness ==
  /\ capacity >= 1
  /\ last.op = "Get"
  /\ Len(last.evicted) = 1
  /\ Len(list) = capacity

\* C17 as stated: sanitizeKey("host:8080/path/../file") is
\* "host_8080_path__file" and sanitizeKey("") is "empty".
C17_Claim ==
  san.pc = "return" =>
     /\ san.key = HostKey =>
          san.safe = <<"h", "o", "s", "t", "_", "8", "0", "8", "0", "_",
                       "p", "a", "t", "h", "_", "_", "f", "i", "l", "e">>
     /\ san.key = <<>> => san.safe = <<"e", "m", "p", "t", "y">>

\* the store's contents and counter are what they were before the step
StoreUntouched ==
  /\ mdata' = mdata
  /\ base' = base
  /\ files' = files
  /\ size' = size
  /\ Size' = Size

\* C15: a Get, Set or Delete of either store that is called with a cancelled
\* or expired context returns that context's error and leaves the store's
\* contents and its Size as they were.
C15_ContextChecked ==
  [][slast'.ctx # NoErr => slast'.err = slast'.ctx /\ StoreUntouched]_vars

C15_Witness ==
  /\ kind = "file"
  /\ slast.op = "Set"
  /\ slast.ctx = ErrDeadline
  /\ slast.err = ErrDeadline
  /\ Size > 0

\* the keys with a Set that no Delete of the same key has followed
StoredKeys == {k \in DOMAIN written : written[k] # NoVal}

\* C16: after any sequence of Set and Delete calls on a store, Size() is the
\* number of keys that are currently stored, and it is never negative.
C16_Claim ==
  kind \in {"memory", "file"} => Size = Cardinality(StoredKeys) /\ Size >= 0

\* C18: with a live context, Get(k) returns the value of the last Set(k) when
\* no Delete(k) followed it and fails with os.ErrNotExist when k is absent,
\* and Delete of an absent key succeeds and changes nothing.
C18_Claim ==
  [][slast'.ctx = NoErr =>
       /\ slast'.op = "Get" /\ written[slast'.key] # NoVal
            => slast'.err = NoErr /\ slast'.value = written[slast'.key]
       /\ slast'.op = "Get" /\ written[slast'.key] = NoVal
            => slast'.err = ErrNotExist
       /\ slast'.op = "Delete" /\ written[slast'.key] = NoVal
            => slast'.err = NoErr /\ StoreUntouched]_vars

\* the call of a thread run in one piece on the cache as it was when the
\* thread took the lock
Sequential(r) ==
  LET w == Work(pre.list, pre.items, pre.storage)
  IN IF r.op = "Get" THEN GetOp(w, r.key, NoErr, NoErr, NoErr)
     ELSE IF r.op = "Set" THEN SetOp(w, r.key, r.value, NoErr, NoErr)
     ELSE DeleteOp(w, r.key, NoErr)

\* C14: with several threads calling Get, Set and Delete on one cache of
\* capacity >= 0 over an initially empty store that does not fail, whenever
\* no thread holds the lock the index and the store hold the same keys with
\* the same values, and every call ends with the cache, the returned value
\* and the error that the call run alone on the cache found at its lock gives.
C14_Serialized ==
  /\ mu = "unlocked" /\ capacity >= 0 =>
       /\ IndexKeys = {k \in Keys : storage[k] # NoVal}
       /\ ListKeys = IndexKeys
       /\ \A k \in IndexKeys : IndexValue(list, k) = storage[k]
  /\ \A t \in Threads :
       th[t].pc = "unlock" /\ pre # NoPre =>
         \E w \in {Sequential(th[t])} :
            /\ list = w.list
            /\ items = w.items
            /\ storage = w.storage
            /\ th[t].ret = w.ret
            /\ th[t].err = w.err

C14_Witness ==
  /\ th[2].pc = "unlock"
  /\ th[2].op = "Set"
  /\ th[2].victim # 0
  /\ th[2].victim # th[2].key
  /\ storage[th[2].victim] = NoVal
  /\ capacity > 0
  /\ Len(list) = capacity

\* the request has the result of its cache Get
GotCache == req.pc \in {"decode", "fetch", "set", "done", "hung"}

\* C19: GetOriginalImage calls the cache with the URL as key; it fetches from
\* the origin only when the cache Get returned os.ErrNotExist, so not after a
\* hit, and any other cache error ends the request with an error and no
\* fetch; a fetch that yields the re-encoded image, and no other, is followed
\* by exactly one cache Set of the URL, and an error of that Set, an
\* eviction's included, is the error of the request.
C19_FetchOnNotFound ==
  /\ GotCache => req.getKey = req.url
  /\ req.fetches <= 1 /\ req.sets <= 1
  /\ req.fetches = 1 => req.cacheErr = ErrNotExist
  /\ GotCache /\ req.cacheErr = NoErr => req.fetches = 0 /\ req.sets = 0
  /\ GotCache /\ req.cacheErr \notin {NoErr, ErrNotExist} =>
       /\ req.pc = "done"
       /\ req.fetches = 0
       /\ req.sets = 0
       /\ req.err = <<"failed to get from cache: ">> \o req.cacheErr
  /\ req.pc \in {"done", "hung"} /\ req.outcome = "ok" =>
       req.sets = 1 /\ req.setKey = req.url
  /\ req.sets = 1 => req.fetches = 1 /\ req.outcome = "ok"
  /\ req.pc = "done" /\ req.sets = 1 /\ req.setErr # NoErr =>
       req.err = <<"failed to cache image: ">> \o req.setErr

C19_Witness ==
  /\ req.pc = "done"
  /\ req.cacheErr = ErrNotExist
  /\ req.fetches = 1
  /\ req.sets = 1
  /\ req.setKey = req.url
  /\ req.setErr = WrapDelete(ErrCanceled)
  /\ req.err = <<"failed to cache image: ">> \o req.setErr

\* the last operation was a Set of a key not in the index whose store write
\* succeeded and whose eviction's store Delete failed
EvictionFailedSet ==
  /\ last.op = "Set"
  /\ ~last.hit
  /\ last.returned
  /\ last.calls # <<>>
  /\ last.calls[1] = Call("Set", last.key, NoErr)
  /\ last.err # NoErr

\* the key the last operation evicted last
Victim == last.evicted[Len(last.evicted)]

\* C21 as stated: after a Set(k, v) of a new key that failed only in the
\* eviction's store Delete, the store holds k -> v, the index holds k with v
\* at the front, the victim is out of the index and still in the store, and
\* the index is not larger than the capacity.
C21_Original ==
  EvictionFailedSet =>
     /\ storage[last.key] = last.value
     /\ last.key \in IndexKeys
     /\ items[last.key] = 1
     /\ list[1] = cacheItem(last.key, last.value)
     /\ Victim \notin IndexKeys
     /\ storage[Victim] # NoVal
     /\ Len(list) <= capacity

\* C21 amended: after such a Set the store holds k -> v and the one victim is
\* out of the index and still in the store.  With capacity >= 1 the victim is
\* another key, the index holds k with v at the front and is exactly full;
\* with capacity <= 0 the victim is k itself and the index is empty.
C21_EvictionFailure ==
  EvictionFailedSet =>
     /\ storage[last.key] = last.value
     /\ Len(last.evicted) = 1
     /\ Victim \notin IndexKeys
     /\ Victim \notin ListKeys
     /\ storage[Victim] # NoVal
     /\ last.err = WrapDelete(last.calls[2].err)
     /\ capacity >= 1 =>
          /\ Victim # last.key
          /\ last.key \in IndexKeys
          /\ items[last.key] = 1
          /\ list[1] = cacheItem(last.key, last.value)
          /\ Len(list) = capacity
     /\ capacity <= 0 =>
          /\ Victim = last.key
          /\ list = <<>>
          /\ IndexKeys = {}

\* a Set on a full cache of capacity 2 whose eviction failed
C21_Witness ==
  /\ EvictionFailedSet
  /\ capacity = 2
  /\ Len(list) = 2
  /\ Victim # last.key

\* C22: in every reachable state of the cache, after operations with or
\* without store failures, no key is in the list twice, the items map and the
\* list hold the same keys, and items[k] is the list element whose key is k.
C22_IndexWellFormed ==
  /\ \A i, j \in 1..Len(list) : list[i].key = list[j].key => i = j
  /\ ListKeys = IndexKeys
  /\ Cardinality(IndexKeys) = Len(list)
  /\ \A k \in IndexKeys :
       /\ items[k] \in 1..Len(list)
       /\ list[items[k]].key = k

\* a read-through Get into a full index whose eviction failed
C22_Witness ==
  /\ capacity = 2
  /\ Len(list) = 2
  /\ last.op = "Get"
  /\ ~last.hit
  /\ last.evicted # <<>>
  /\ last.err # NoErr
  /\ items[last.key] = 1

\* C23: for every configured capacity, positive, zero or negative, every
\* call of Get, Set or Delete that has taken the cache lock returns and
\* releases it, so the lock is free again and again.
C23_Claim ==
  /\ \A t \in Threads : (th[t].pc # "idle") ~> (th[t].pc = "idle")
  /\ []<>(mu = "unlocked")

\* the last operation was a Get that returned a value and no error
SuccessfulGet == last.op = "Get" /\ last.err = NoErr /\ last.returned

\* C24 as stated: for every capacity, after a successful Get(k) the store
\* holds k with the value returned, and a Get(k) that follows immediately
\* succeeds with the same value.
C24_Original ==
  [][/\ SuccessfulGet' => storage'[last'.key] = last'.ret
     /\ SuccessfulGet /\ last'.op = "Get" /\ last'.key = last.key
          => last'.err = NoErr /\ last'.ret = last.ret]_vars

\* C24 amended: with capacity >= 1, after a successful Get(k) the store holds
\* k with the value returned and k is in the index, so a Get(k) that follows
\* immediately is a hit that returns the same value without a store call.
\* With capacity <= 0 a successful Get(k) has evicted k itself and deleted it
\* from the store, and a Get(k) that follows immediately does not succeed.
C24_GetKeepsKey ==
  [][/\ SuccessfulGet' /\ capacity >= 1 =>
          /\ storage'[last'.key] = last'.ret
          /\ last'.key \in DOMAIN items'
     /\ SuccessfulGet /\ capacity >= 1
        /\ last'.op = "Get" /\ last'.key = last.key =>
          /\ last'.hit
          /\ last'.calls = <<>>
          /\ last'.err = NoErr
          /\ last'.ret = last.ret
     /\ SuccessfulGet' /\ capacity <= 0 =>
          /\ last'.evicted = <<last'.key>>
          /\ last'.key \notin DOMAIN items'
          /\ storage'[last'.key] = NoVal
     /\ SuccessfulGet /\ capacity <= 0
        /\ last'.op = "Get" /\ last'.key = last.key =>
          last'.err # NoErr /\ last'.ret = NoVal]_vars

\* a read-through Get into a full index that evicted another key
C24_Witness ==
  /\ SuccessfulGet
  /\ ~last.hit
  /\ capacity >= 1
  /\ last.evicted # <<>>
  /\ storage[last.key] = last.ret
  /\ items[last.key] = 1

\* the name s holds ".." somewhere
HasDotDot(s) == \E i \in 1..(Len(s) - 1) : s[i] = "." /\ s[i + 1] = "."

\* C25: for every key the sanitized name is not empty and not ".", holds no
\* ":", "/", "\" and no "..", and does not start with "_", so the path is a
\* direct child of the base directory and never the base directory itself.
C25_Claim ==
  san.pc = "return" =>
     /\ san.safe # <<>>
     /\ san.safe # <<".">>
     /\ \A i \in 1..Len(san.safe) : san.safe[i] \notin {":", "/", "\\"}
     /\ ~HasDotDot(san.safe)
     /\ san.safe # <<>> => san.safe[1] # "_"
     /\ ~OnBase(san.safe)

\* what Get(ctx, key) with a live context returns from the file store
GetResult(b, f, n, key) ==
  LET r == FileGet(b, f, n, NoErr, key)
  IN <<r.value, r.stream, r.err>>

\* C26: in a FileStorage a Set or Delete of a key k2 does not change what Get
\* returns for any other key k1, and Size() is at least two when two
\* different keys are stored.
C26_Claim ==
  [][kind = "file" =>
       /\ slast'.op \in {"Set", "Delete"} =>
            \A k1 \in StoreKeys \ {slast'.key} :
               GetResult(base', files', size', k1)
                 = GetResult(base, files, size, k1)
       /\ \A k1, k2 \in StoredKeys' : k1 # k2 => Size' >= 2]_vars

====
